---- MODULE Spec2Model ----
(***************************************************************************)
(* ResumeRanker: the two-stage ranking funnel of ResumeRankingPipeline.run *)
(* (main.py), Stage 1 bi_encoder_resume_filtering (ranking/bi_encoder.py)  *)
(* and Stage 2 score_and_rank (ranking/cross_encoder_llm.py) with the      *)
(* Judge wrapper llm_as_a_judge (ranking/llm_judge.py).                    *)
(*                                                                         *)
(* Python values are tagged records: [t |-> "dict", d |-> function],       *)
(* [t |-> "str", s |-> string], [t |-> "num", n |-> integer],              *)
(* [t |-> "list", l |-> sequence], [t |-> "null"].                         *)
(* Scores are integers: a judgment or pairwise score x is held as 1000*x,  *)
(* a weight w as 10*w, a combined score c as 10000*c, a cosine similarity  *)
(* s as 10*s.                                                              *)
(***************************************************************************)
EXTENDS Integers, Sequences, FiniteSets, TLC

(* ---------------- bounds ---------------- *)
MaxPool == 2
\* the largest number of entries in the resume folder
MaxFiles == 2

(* ---------------- Python values ---------------- *)
Null == [t |-> "null"]
Str(x) == [t |-> "str", s |-> x]
Num(x) == [t |-> "num", n |-> x]
List(x) == [t |-> "list", l |-> x]
Dict(f) == [t |-> "dict", d |-> f]
Bool(x) == [t |-> "bool", b |-> x]
EmptyDict == Dict(<<>>)

IsDict(v) == v.t = "dict"

\* Python truthiness of a value (the operand test of `or`)
Truthy(v) ==
  CASE v.t = "null" -> FALSE
    [] v.t = "str" -> v.s # ""
    [] v.t = "num" -> v.n # 0
    [] v.t = "bool" -> v.b
    [] v.t = "list" -> Len(v.l) > 0
    [] v.t = "dict" -> DOMAIN v.d # {}
    [] OTHER -> TRUE

\* mutant: `return current` in place of `return current or default`
RECURSIVE safe_get_nested_keeps_none(_, _, _)
safe_get_nested_keeps_none(dictionary, keys, default) ==
  IF keys = <<>>
    THEN dictionary
    ELSE IF ~IsDict(dictionary) \/ Head(keys) \notin DOMAIN dictionary.d
           THEN default
           ELSE safe_get_nested_keeps_none(dictionary.d[Head(keys)], Tail(keys), default)

\* mutant: a path that cannot be followed yields None, whatever the default
RECURSIVE safe_get_nested_drops_default(_, _, _)
safe_get_nested_drops_default(dictionary, keys, default) ==
  IF keys = <<>>
    THEN (IF Truthy(dictionary) THEN dictionary ELSE default)
    ELSE IF ~IsDict(dictionary) \/ Head(keys) \notin DOMAIN dictionary.d
           THEN Null
           ELSE safe_get_nested_drops_default(dictionary.d[Head(keys)], Tail(keys), default)

\* helpers.py safe_get_nested(dictionary, *keys, default)
RECURSIVE safe_get_nested(_, _, _)
safe_get_nested(dictionary, keys, default) ==
  IF keys = <<>>
    THEN (IF Truthy(dictionary) THEN dictionary ELSE default)
    ELSE IF ~IsDict(dictionary) \/ Head(keys) \notin DOMAIN dictionary.d
           THEN default
           ELSE safe_get_nested(dictionary.d[Head(keys)], Tail(keys), default)

(* ---------------- candidate records ---------------- *)
CandidateNames == {"A", "B"}

\* a structured resume as extract_resume_details returns it
Resume(name) == Dict([contact_info |-> Dict([name |-> Str(name)])])

\* what extract_resume_details can return: a structured resume, or {} when
\* the extraction failed
\* a second resume of the same person (the same name, other content)
RevisedResume(name) ==
  Dict([contact_info |-> Dict([name |-> Str(name)]),
        professional_summary |-> Str("revised")])

ResumeValues ==
  {Resume(n) : n \in CandidateNames} \cup {RevisedResume("A")} \cup {EmptyDict}

RECURSIVE SeqsUpTo(_, _)
SeqsUpTo(S, n) ==
  IF n = 0 THEN {<<>>}
  ELSE LET shorter == SeqsUpTo(S, n - 1)
       IN shorter \cup {Append(q, x) : q \in {r \in shorter : Len(r) = n - 1}, x \in S}

Pools == SeqsUpTo(ResumeValues, MaxPool)

\* the job specification extract_job_requirements returns
JobValues == {Dict([job_context |-> Dict([job_title |-> Str("Engineer")])])}

(* ---------------- sorting ---------------- *)
\* sorted(xs, key=lambda x: x[field], reverse=True): a stable sort in
\* descending key order (elements with equal keys keep their input order)
\* mutant: an insertion that puts an element before its equals
RECURSIVE InsertDescStrict(_, _, _)
InsertDescStrict(sortedSeq, x, field) ==
  IF sortedSeq = <<>> THEN <<x>>
  ELSE IF Head(sortedSeq)[field] > x[field]
         THEN <<Head(sortedSeq)>> \o InsertDescStrict(Tail(sortedSeq), x, field)
         ELSE <<x>> \o sortedSeq

RECURSIVE InsertDesc(_, _, _)
InsertDesc(sortedSeq, x, field) ==
  IF sortedSeq = <<>> THEN <<x>>
  ELSE IF Head(sortedSeq)[field] >= x[field]
         THEN <<Head(sortedSeq)>> \o InsertDesc(Tail(sortedSeq), x, field)
         ELSE <<x>> \o sortedSeq

\* mutant: a sort that keeps one element per key
RECURSIVE SortedDescDropsTies(_, _)
SortedDescDropsTies(xs, field) ==
  IF xs = <<>> THEN <<>>
  ELSE LET rest == SortedDescDropsTies(SubSeq(xs, 1, Len(xs) - 1), field)
           x == xs[Len(xs)]
       IN IF \E j \in 1..Len(rest) : rest[j][field] = x[field]
            THEN rest
            ELSE InsertDesc(rest, x, field)

\* mutant: sorted(xs, key=...)[::-1], an ascending sort read backwards
RECURSIVE InsertAsc(_, _, _)
InsertAsc(sortedSeq, x, field) ==
  IF sortedSeq = <<>> THEN <<x>>
  ELSE IF Head(sortedSeq)[field] <= x[field]
         THEN <<Head(sortedSeq)>> \o InsertAsc(Tail(sortedSeq), x, field)
         ELSE <<x>> \o sortedSeq

RECURSIVE SortedAsc(_, _)
SortedAsc(xs, field) ==
  IF xs = <<>> THEN <<>>
  ELSE InsertAsc(SortedAsc(SubSeq(xs, 1, Len(xs) - 1), field), xs[Len(xs)], field)

SortedDescReversed(xs, field) ==
  LET asc == SortedAsc(xs, field)
  IN [i \in 1..Len(asc) |-> asc[Len(asc) + 1 - i]]

RECURSIVE SortedDesc(_, _)
SortedDesc(xs, field) ==
  IF xs = <<>> THEN <<>>
  ELSE InsertDesc(SortedDesc(SubSeq(xs, 1, Len(xs) - 1), field), xs[Len(xs)], field)

(* ---------------- artifacts on disk (config.py) ---------------- *)
\* config.py DATA_DIR, relative to ROOT_DIR
DATA_DIR == "data"
STRUCTURED_JOB_DESCRIPTION_PATH == "data/structured_job_description.json"
STRUCTURED_RESUMES_PATH == "data/structured_resumes.json"
BI_ENCODER_RANKING_PATH == "data/bi_encoder_ranking.json"
FINAL_RANKING_PATH == "data/final_resume_ranking.json"

ArtifactPaths ==
  {STRUCTURED_JOB_DESCRIPTION_PATH, STRUCTURED_RESUMES_PATH,
   BI_ENCODER_RANKING_PATH, FINAL_RANKING_PATH}

NoFile == [absent |-> TRUE]
\* json.dump(obj, f) and json.load(f): the file holds the JSON document of obj
json_dump(obj) == [json |-> obj]
json_load(file) == file.json

\* a ranking left in the data directory by an earlier run
StaleRanking == <<[candidate_name |-> Str("Z"), rank |-> 1]>>

(* ---------------- external capabilities ---------------- *)
Raise == [raises |-> TRUE]
Returns(v) == [raises |-> FALSE, value |-> v]

\* Embedder + cosine similarity for one candidate: a similarity (x10), or
\* an exception out of bi_encoder_model.encode
SimilarityValues == {5, 9}
EmbedderOutcomes == {Raise} \cup {Returns(x) : x \in SimilarityValues}

\* PairwiseScorer: a raw relevance score, or an exception out of predict
RawScores == {0, 2}
PairwiseOutcomes == {Raise} \cup {Returns(x) : x \in RawScores}

\* Judge: client.responses.parse raises, or json.loads(output_text) yields
\* a judgment, an object with a null or without a final_score, or a value
\* that is not an object
GoodJudgment == Dict([detailed_analysis |-> Str("fit"), final_score |-> Num(8000)])
NullScoreJudgment == Dict([detailed_analysis |-> Str("fit"), final_score |-> Null])
NoScoreJudgment == Dict([detailed_analysis |-> Str("fit")])
NonObjectJudgment == List(<<>>)
JudgeOutcomes ==
  {Raise} \cup {Returns(v) : v \in {GoodJudgment, NullScoreJudgment,
                                     NoScoreJudgment, NonObjectJudgment}}

\* mutant: the sigmoid rescaled by 100 instead of 10
SigmoidPercent(raw) ==
  CASE raw = -2 -> 11920
    [] raw = -1 -> 26894
    [] raw = 0 -> 50000
    [] raw = 1 -> 73106
    [] raw = 2 -> 88080

\* (1 / (1 + math.exp(-raw_score))) * 10.0, x1000, rounded
Sigmoid10(raw) ==
  CASE raw = -2 -> 1192
    [] raw = -1 -> 2689
    [] raw = 0 -> 5000
    [] raw = 1 -> 7311
    [] raw = 2 -> 8808

\* mutant: the except branch returns None instead of {}
llm_as_a_judge_returns_none(outcome) ==
  IF outcome.raises THEN Null ELSE outcome.value

\* llm_judge.py llm_as_a_judge: the try/except turns an exception into {}
llm_as_a_judge(outcome) ==
  IF outcome.raises THEN EmptyDict ELSE outcome.value

(* ---------------- text formatting (ranking/text_formatting.py) ---------------- *)
\* str(v), for the values that reach a text field
py_str(v) ==
  CASE v.t = "str" -> v.s
    [] v.t = "null" -> "None"
    [] v.t = "num" -> ToString(v.n)

\* sep.join(strings)
RECURSIVE JoinStr(_, _)
JoinStr(strings, sep) ==
  IF strings = <<>> THEN ""
  ELSE IF Len(strings) = 1 THEN strings[1]
  ELSE strings[1] \o sep \o JoinStr(Tail(strings), sep)

\* helpers.py safe_join(items, default): " ".join(map(str, items or default or []));
\* a number is not iterable
safe_join(items, default) ==
  LET chosen == IF Truthy(items) THEN items
                ELSE IF Truthy(default) THEN default ELSE List(<<>>)
  IN CASE chosen.t = "list" ->
            Returns(Str(JoinStr([i \in 1..Len(chosen.l) |-> py_str(chosen.l[i])], " ")))
       [] chosen.t = "num" -> Raise

\* a + b on the values a skill sub-list can hold: list + list concatenates,
\* None or a number on either side is a TypeError
list_add(a, b) ==
  IF a.t = "list" /\ b.t = "list" THEN Returns(List(a.l \o b.l)) ELSE Raise

\* ' '.join(achievements): every item has to be a str, and None or a number
\* is not iterable
str_join(items) ==
  CASE items.t = "list" ->
         IF \A i \in 1..Len(items.l) : items.l[i].t = "str"
           THEN Returns(JoinStr([i \in 1..Len(items.l) |-> items.l[i].s], " "))
           ELSE Raise
    [] items.t \in {"null", "num"} -> Raise

\* prompts.py resume_signal_text.format(...)
resume_signal_text(professional_summary, skills, job_roles_and_achivements, projects, certificates) ==
  "\nProfessional Summary: \n" \o professional_summary
    \o "\n\nSkills: \n" \o skills
    \o "\n\nJob Roles and Achievements: \n" \o job_roles_and_achivements
    \o "\n\nProjects:\n" \o projects
    \o "\n\nCertifications:\n" \o certificates \o "\n"

\* prompts.py job_signal_text.format(...)
job_signal_text(job_title, seniority, key_responsibilities, required_skills, required_tools, preferred_skills, preferred_tools, required_experience, domain_knowledge) ==
  "\nJob Title: \n" \o job_title
    \o "\n\nSeniority: \n" \o seniority
    \o "\n\nKey Responsibilities: \n" \o key_responsibilities
    \o "\n\nRequired Skills:\n" \o required_skills
    \o "\n\nRequired Tools:\n" \o required_tools
    \o "\n\nPreferred Skills: \n" \o preferred_skills
    \o "\n\nPreferred Tools:\n" \o preferred_tools
    \o "\n\nRequired Experience:\n" \o required_experience
    \o "\n\nDomain Knowledge:\n" \o domain_knowledge \o "\n"

\* format_resume, the body of the loop over work_experience (lines 81-84)
job_role(job) ==
  LET company == safe_get_nested(job, <<"company">>, Str(""))
      role == safe_get_nested(job, <<"job_title">>, Str(""))
      achievements == safe_get_nested(job, <<"achievements">>, List(<<>>))
      joined == str_join(achievements)
  IN IF joined.raises THEN Raise
     ELSE Returns(Str(py_str(role) \o " at " \o py_str(company) \o ": " \o joined.value))

\* format_resume, the body of the loop over projects (lines 89-91)
project_text(proj) ==
  LET name == safe_get_nested(proj, <<"project_name">>, Str(""))
      desc == safe_get_nested(proj, <<"description">>, Str(""))
  IN Str(py_str(name) \o ": " \o py_str(desc))

\* text_formatting.py format_resume: the text block, or the TypeError a
\* value of the wrong type raises on the way
format_resume(candidate_data) ==
  LET skills_section == safe_get_nested(candidate_data, <<"skills_section">>, EmptyDict)
      languages == safe_get_nested(skills_section, <<"programming_languages">>, List(<<>>))
      frameworks == safe_get_nested(skills_section, <<"frameworks_and_libraries">>, List(<<>>))
      platforms == safe_get_nested(skills_section, <<"platforms_and_tools">>, List(<<>>))
      first_two == list_add(languages, frameworks)
      all_skills == IF first_two.raises THEN Raise
                    ELSE list_add(first_two.value, platforms)
      work_experience == safe_get_nested(candidate_data, <<"work_experience">>, List(<<>>))
      job_roles == [i \in 1..Len(work_experience.l) |-> job_role(work_experience.l[i])]
      projects == safe_get_nested(candidate_data, <<"projects">>, List(<<>>))
      project_texts == [i \in 1..Len(projects.l) |-> project_text(projects.l[i])]
      professional_summary ==
        safe_get_nested(candidate_data, <<"professional_summary">>, Str(""))
      certifications == safe_get_nested(candidate_data, <<"certifications">>, List(<<>>))
  IN IF all_skills.raises THEN Raise
     ELSE IF work_experience.t # "list" THEN Raise
     ELSE IF \E i \in 1..Len(job_roles) : job_roles[i].raises THEN Raise
     ELSE IF projects.t # "list" THEN Raise
     ELSE LET skills == safe_join(all_skills.value, Null)
              roles == safe_join(List([i \in 1..Len(job_roles) |-> job_roles[i].value]), Null)
              projs == safe_join(List(project_texts), Null)
              certs == safe_join(certifications, Null)
          IN IF skills.raises \/ roles.raises \/ projs.raises \/ certs.raises
               THEN Raise
               ELSE Returns(Str(resume_signal_text(py_str(professional_summary),
                                                   skills.value.s, roles.value.s,
                                                   projs.value.s, certs.value.s)))

\* text_formatting.py format_job_description
format_job_description(job) ==
  LET job_context == safe_get_nested(job, <<"job_context">>, EmptyDict)
      role_description == safe_get_nested(job, <<"role_description">>, EmptyDict)
      hard_requirements == safe_get_nested(job, <<"hard_requirements">>, EmptyDict)
      preferred_quals == safe_get_nested(job, <<"preferred_qualifications">>, EmptyDict)
      job_title == safe_get_nested(job_context, <<"job_title">>, Str(""))
      seniority == safe_get_nested(job_context, <<"seniority_level">>, Str(""))
      joined ==
        << safe_join(safe_get_nested(role_description, <<"key_responsibilities">>, List(<<>>)), Null),
           safe_join(safe_get_nested(hard_requirements, <<"must_have_skills">>, List(<<>>)), Null),
           safe_join(safe_get_nested(hard_requirements, <<"must_have_tools">>, List(<<>>)), Null),
           safe_join(safe_get_nested(preferred_quals, <<"preferred_skills">>, List(<<>>)), Null),
           safe_join(safe_get_nested(preferred_quals, <<"preferred_tools">>, List(<<>>)), Null),
           safe_join(safe_get_nested(hard_requirements, <<"required_experience_type">>, List(<<>>)), Null),
           safe_join(safe_get_nested(role_description, <<"domain_knowledge">>, List(<<>>)), Null) >>
  IN IF \E i \in 1..Len(joined) : joined[i].raises THEN Raise
     ELSE Returns(Str(job_signal_text(py_str(job_title), py_str(seniority),
                                      joined[1].value.s, joined[2].value.s,
                                      joined[3].value.s, joined[4].value.s,
                                      joined[5].value.s, joined[6].value.s,
                                      joined[7].value.s)))

(* ---------------- constructor arguments (main.py argparse) ---------------- *)
TopNValues == (-1) .. MaxPool
\* --data-dir: the default, and a directory of the caller's choosing
DataDirs == {DATA_DIR, "out"}
\* <<llm_weights, cross_encoder_weight>>, x10
DefaultWeights == <<7, 3>>
WeightPairs == {DefaultWeights, <<10, 5>>, <<-5, 10>>}

(* ---------------- state ---------------- *)
VARIABLES
  pc,                          \* position in ResumeRankingPipeline.run
  top_n, llm_weights, cross_encoder_weight,
  structured_job_description, structured_resumes,
  files,                       \* artifact path -> file content
  written,                     \* paths written by this run, in order
  results,                     \* bi_encoder_resume_filtering: results
  bi_encoder_ranking,          \* _filter_with_bi_encoder: the returned ranking
  loaded_ranking,              \* _score_and_rank: the ranking read back
  top_candidate_names, candidate_data_by_name,
  llm_results, cross_encoder_scores,
  pos,                         \* score_and_rank: index of the first loop
  combined_results, final_ranking,
  call_log,                    \* per top-N position: what the two scorers did
  failure,                     \* the exception that ended the run, if any
  data_dir,                    \* ResumeRankingPipeline.data_dir
  lib_call,                    \* a helper function called on its own: its arguments
  lib_result                   \* ... and what the call did

vars ==
  <<pc, top_n, llm_weights, cross_encoder_weight, structured_job_description,
    structured_resumes, files, written, results, bi_encoder_ranking,
    loaded_ranking, top_candidate_names, candidate_data_by_name, llm_results,
    cross_encoder_scores, pos, combined_results, final_ranking, call_log,
    failure, data_dir, lib_call, lib_result>>

stage1Vars == <<results, bi_encoder_ranking>>
stage2Vars ==
  <<loaded_ranking, top_candidate_names, candidate_data_by_name, llm_results,
    cross_encoder_scores, pos, combined_results, final_ranking, call_log>>
ctorVars == <<top_n, llm_weights, cross_encoder_weight, data_dir>>
libVars == <<lib_call, lib_result>>

\* no helper function is being called on its own
NoCall == [fn |-> "none"]
Pending == [status |-> "pending"]

\* ResumeRankingPipeline.__init__, the weights drawn from weights and
\* data_dir from dirs
Constructed(weights, dirs) ==
  /\ pc = "extract_job"
  /\ data_dir \in dirs
  /\ lib_call = NoCall
  /\ lib_result = Pending
  /\ top_n \in TopNValues
  /\ \E w \in weights : llm_weights = w[1] /\ cross_encoder_weight = w[2]
  /\ structured_job_description = EmptyDict
  /\ structured_resumes = <<>>
  /\ \E old \in {NoFile, json_dump(StaleRanking)} :
       files = [p \in ArtifactPaths |->
                  IF p = BI_ENCODER_RANKING_PATH THEN old ELSE NoFile]
  /\ written = <<>>
  /\ results = <<>>
  /\ bi_encoder_ranking = <<>>
  /\ loaded_ranking = <<>>
  /\ top_candidate_names = <<>>
  /\ candidate_data_by_name = <<>>
  /\ llm_results = <<>>
  /\ cross_encoder_scores = <<>>
  /\ pos = 1
  /\ combined_results = <<>>
  /\ final_ranking = <<>>
  /\ call_log = <<>>
  /\ failure = "none"

\* the pipeline constructed with the default data_dir
Init == Constructed(WeightPairs, {DATA_DIR})

\* the pipeline constructed with any --data-dir and the default weights
InitDataDir == Constructed({DefaultWeights}, DataDirs)

\* ResumeRankingPipeline._extract_job_description
ExtractJobDescription ==
  /\ pc = "extract_job"
  /\ \E job \in JobValues :
       /\ structured_job_description' = job
       /\ files' = [files EXCEPT ![STRUCTURED_JOB_DESCRIPTION_PATH] = json_dump(job)]
  /\ written' = Append(written, STRUCTURED_JOB_DESCRIPTION_PATH)
  /\ pc' = "extract_resumes"
  /\ UNCHANGED <<libVars, ctorVars, structured_resumes, stage1Vars, stage2Vars, failure>>

\* ResumeRankingPipeline._extract_resume_details
ExtractResumeDetails ==
  /\ pc = "extract_resumes"
  /\ \E pool \in Pools :
       /\ structured_resumes' = pool
       /\ files' = [files EXCEPT ![STRUCTURED_RESUMES_PATH] = json_dump(pool)]
  /\ written' = Append(written, STRUCTURED_RESUMES_PATH)
  /\ pc' = "filter"
  /\ UNCHANGED <<libVars, ctorVars, structured_job_description, stage1Vars, stage2Vars, failure>>

\* the identity Stage 1 gives a record (bi_encoder.py lines 41-43)
Stage1Name(candidate_data) ==
  safe_get_nested(candidate_data, <<"contact_info", "name">>, Str("Unknown Candidate"))

\* mutant: the loop catches the Embedder's exception, stops and returns the
\* ranking of the candidates encoded so far
FilterStepReturnsPartial ==
  /\ pc = "filter"
  /\ Len(results) < Len(structured_resumes)
  /\ LET candidate_data == structured_resumes[Len(results) + 1]
     IN \E enc \in EmbedderOutcomes :
          IF enc.raises
            THEN /\ failure' = "embedder"
                 /\ bi_encoder_ranking' = SortedDesc(results, "rank")
                 /\ files' = [files EXCEPT ![BI_ENCODER_RANKING_PATH] =
                                json_dump(bi_encoder_ranking')]
                 /\ written' = Append(written, BI_ENCODER_RANKING_PATH)
                 /\ pc' = "score"
                 /\ UNCHANGED results
            ELSE /\ results' = Append(results,
                      [candidate_name |-> Stage1Name(candidate_data),
                       rank |-> enc.value])
                 /\ UNCHANGED <<pc, failure, files, written, bi_encoder_ranking>>
  /\ UNCHANGED <<libVars, ctorVars, structured_job_description, structured_resumes,
                 stage2Vars>>

\* bi_encoder_resume_filtering: one iteration of the loop over the pool
\* (format_resume, then the Embedder and the cosine similarity)
FilterStep ==
  /\ pc = "filter"
  /\ Len(results) < Len(structured_resumes)
  /\ LET candidate_data == structured_resumes[Len(results) + 1]
         resume_text == format_resume(candidate_data)
     IN \E enc \in EmbedderOutcomes :
          IF resume_text.raises \/ enc.raises
            THEN /\ pc' = "aborted"
                 /\ failure' = IF resume_text.raises THEN "format_resume" ELSE "embedder"
                 /\ UNCHANGED results
            ELSE /\ results' = Append(results,
                      [candidate_name |-> Stage1Name(candidate_data),
                       rank |-> enc.value])
                 /\ UNCHANGED <<pc, failure>>
  /\ UNCHANGED <<libVars, ctorVars, structured_job_description, structured_resumes,
                 files, written, bi_encoder_ranking, stage2Vars>>

\* mutant: the pool list given as input is reversed in place before returning
FilterReturnReversesPool ==
  /\ pc = "filter"
  /\ Len(results) = Len(structured_resumes)
  /\ bi_encoder_ranking' = SortedDesc(results, "rank")
  /\ structured_resumes' =
       [i \in 1..Len(structured_resumes) |->
          structured_resumes[Len(structured_resumes) + 1 - i]]
  /\ files' = [files EXCEPT ![BI_ENCODER_RANKING_PATH] = json_dump(bi_encoder_ranking')]
  /\ written' = Append(written, BI_ENCODER_RANKING_PATH)
  /\ pc' = "score"
  /\ UNCHANGED <<libVars, ctorVars, structured_job_description,
                 results, stage2Vars, failure>>

\* mutant: the checkpoint is written only when no checkpoint file exists yet
FilterReturnKeepsCheckpoint ==
  /\ pc = "filter"
  /\ Len(results) = Len(structured_resumes)
  /\ bi_encoder_ranking' = SortedDesc(results, "rank")
  /\ files' = IF files[BI_ENCODER_RANKING_PATH] = NoFile
                THEN [files EXCEPT ![BI_ENCODER_RANKING_PATH] = json_dump(bi_encoder_ranking')]
                ELSE files
  /\ written' = IF files[BI_ENCODER_RANKING_PATH] = NoFile
                  THEN Append(written, BI_ENCODER_RANKING_PATH)
                  ELSE written
  /\ pc' = "score"
  /\ UNCHANGED <<libVars, ctorVars, structured_job_description, structured_resumes,
                 results, stage2Vars, failure>>

\* bi_encoder_resume_filtering returns sorted(results) and
\* _filter_with_bi_encoder writes it to the checkpoint
FilterReturn ==
  /\ pc = "filter"
  /\ Len(results) = Len(structured_resumes)
  /\ bi_encoder_ranking' = SortedDesc(results, "rank")
  /\ files' = [files EXCEPT ![BI_ENCODER_RANKING_PATH] = json_dump(bi_encoder_ranking')]
  /\ written' = Append(written, BI_ENCODER_RANKING_PATH)
  /\ pc' = "score"
  /\ UNCHANGED <<libVars, ctorVars, structured_job_description, structured_resumes,
                 results, stage2Vars, failure>>

(* ---------------- Stage 2: score_and_rank ---------------- *)
\* mutant: a slice that takes one entry too many
SliceToInclusive(xs, n) ==
  IF n >= 0
    THEN SubSeq(xs, 1, IF n + 1 < Len(xs) THEN n + 1 ELSE Len(xs))
    ELSE SubSeq(xs, 1, IF Len(xs) + n > 0 THEN Len(xs) + n ELSE 0)

\* Python's xs[:n]
SliceTo(xs, n) ==
  IF n >= 0
    THEN SubSeq(xs, 1, IF n < Len(xs) THEN n ELSE Len(xs))
    ELSE SubSeq(xs, 1, IF Len(xs) + n > 0 THEN Len(xs) + n ELSE 0)

\* the key under which Stage 2 indexes a record (cross_encoder_llm.py line 48)
Stage2Key(c) == safe_get_nested(c, <<"contact_info", "name">>, Null)

\* {safe_get_nested(c, "contact_info", "name"): c for c in structured_resumes}:
\* a later record replaces an earlier one with the same key
DictByName(resumes) ==
  LET keys == {Stage2Key(resumes[i]) : i \in 1..Len(resumes)}
      last(k) == CHOOSE i \in 1..Len(resumes) :
                   /\ Stage2Key(resumes[i]) = k
                   /\ \A j \in 1..Len(resumes) : Stage2Key(resumes[j]) = k => j <= i
  IN [k \in keys |-> resumes[last(k)]]

\* {"candidate_name": name, **llm_judgement}
WithName(name, llm_judgement) ==
  Dict([k \in {"candidate_name"} \cup DOMAIN llm_judgement.d |->
          IF k \in DOMAIN llm_judgement.d THEN llm_judgement.d[k] ELSE name])

\* mutant: the first result of the list, whatever its name (a merge by position)
FirstOfAny(rs, name) ==
  IF rs # <<>> THEN rs[1] ELSE EmptyDict

\* next((r for r in rs if r["candidate_name"] == name), {})
FirstByName(rs, name) ==
  IF \E i \in 1..Len(rs) : rs[i].d["candidate_name"] = name
    THEN rs[CHOOSE i \in 1..Len(rs) :
              /\ rs[i].d["candidate_name"] = name
              /\ \A j \in 1..(i - 1) : rs[j].d["candidate_name"] # name]
    ELSE EmptyDict

\* d.get(key, default)
DictGet(dict, key, default) ==
  IF key \in DOMAIN dict.d THEN dict.d[key] ELSE default

\* _score_and_rank loads the checkpoint; score_and_rank, lines 44-54
ScoreStart ==
  /\ pc = "score"
  /\ loaded_ranking' = json_load(files[BI_ENCODER_RANKING_PATH])
  /\ top_candidate_names' =
       LET top_candidates == SliceTo(loaded_ranking', top_n)
       IN [i \in 1..Len(top_candidates) |-> top_candidates[i].candidate_name]
  /\ candidate_data_by_name' = DictByName(structured_resumes)
  /\ llm_results' = <<>>
  /\ cross_encoder_scores' = <<>>
  /\ call_log' = <<>>
  /\ pos' = 1
  /\ pc' = "score_loop"
  /\ UNCHANGED <<libVars, ctorVars, structured_job_description, structured_resumes,
                 files, written, stage1Vars, combined_results, final_ranking,
                 failure>>

\* what happened at one top-N position of the scoring loop
Call(record, judge, judgment, pairwise, score) ==
  [record |-> record, judge |-> judge, judgment |-> judgment, pairwise |-> pairwise,
   score |-> score]

\* score_and_rank, lines 56-74: one iteration of the scoring loop
ScoreStep ==
  /\ pc = "score_loop"
  /\ pos <= Len(top_candidate_names)
  /\ LET name == top_candidate_names[pos]
     IN IF name \in DOMAIN candidate_data_by_name
          THEN \E judge \in JudgeOutcomes, pair \in PairwiseOutcomes :
                 LET candidate_data == candidate_data_by_name[name]
                     llm_judgement == llm_as_a_judge(judge)
                     judged == IF judge.raises THEN "failed" ELSE "answered"
                 IN IF ~IsDict(llm_judgement)
                      THEN \* ** of a value that is not a mapping: TypeError
                           /\ pc' = "aborted"
                           /\ failure' = "judge_not_object"
                           /\ call_log' = Append(call_log,
                                Call(candidate_data, judged, llm_judgement, "not_called", -1))
                           /\ UNCHANGED <<llm_results, cross_encoder_scores, pos>>
                      ELSE /\ llm_results' = Append(llm_results, WithName(name, llm_judgement))
                           /\ IF pair.raises
                                THEN /\ pc' = "aborted"
                                     /\ failure' = "pairwise"
                                     /\ call_log' = Append(call_log,
                                          Call(candidate_data, judged, llm_judgement, "raised", -1))
                                     /\ UNCHANGED <<cross_encoder_scores, pos>>
                                ELSE /\ cross_encoder_scores' = Append(cross_encoder_scores,
                                          Dict([candidate_name |-> name,
                                                cross_encoder_score |-> Num(Sigmoid10(pair.value))]))
                                     /\ call_log' = Append(call_log,
                                          Call(candidate_data, judged, llm_judgement, "scored", Sigmoid10(pair.value)))
                                     /\ pos' = pos + 1
                                     /\ UNCHANGED <<pc, failure>>
          ELSE /\ call_log' = Append(call_log, Call(Null, "skipped", Null, "not_called", -1))
               /\ pos' = pos + 1
               /\ UNCHANGED <<pc, failure, llm_results, cross_encoder_scores>>
  /\ UNCHANGED <<libVars, ctorVars, structured_job_description, structured_resumes,
                 files, written, stage1Vars, loaded_ranking, top_candidate_names,
                 candidate_data_by_name, combined_results, final_ranking>>

\* mutant: the cross-encoder weight is taken as 1 - llm_weight
CombinedEntryComplement(name, llmRes, crossScores, lw, cw) ==
  LET llm_result == FirstByName(llmRes, name)
      cross_result == FirstByName(crossScores, name)
      llm_score == DictGet(llm_result, "final_score", Num(0))
      cross_score == DictGet(cross_result, "cross_encoder_score", Num(0))
  IN [candidate_name |-> name,
      llm_score |-> llm_score,
      cross_encoder_score |-> cross_score.n,
      combined_score |->
        IF llm_score.t = "num"
          THEN (llm_score.n * lw) + (cross_score.n * (10 - lw))
          ELSE 0,
      llm_analysis |-> llm_result]

\* score_and_rank, lines 77-96: the entry of one top-N name
CombinedEntry(name, llmRes, crossScores, lw, cw) ==
  LET llm_result == FirstByName(llmRes, name)
      cross_result == FirstByName(crossScores, name)
      llm_score == DictGet(llm_result, "final_score", Num(0))
      cross_score == DictGet(cross_result, "cross_encoder_score", Num(0))
  IN [candidate_name |-> name,
      llm_score |-> llm_score,
      cross_encoder_score |-> cross_score.n,
      combined_score |->
        IF llm_score.t = "num"
          THEN (llm_score.n * lw) + (cross_score.n * cw)
          ELSE 0,
      llm_analysis |-> llm_result]

\* score_and_rank, lines 75-96: the loop that builds combined_results
CombinedResults(names, llmRes, crossScores, lw, cw) ==
  [i \in 1..Len(names) |-> CombinedEntry(names[i], llmRes, crossScores, lw, cw)]

\* score_and_rank, lines 75-98, then _score_and_rank writes the final ranking
ScoreReturn ==
  /\ pc = "score_loop"
  /\ pos > Len(top_candidate_names)
  /\ LET entries == CombinedResults(top_candidate_names, llm_results,
                                    cross_encoder_scores, llm_weights,
                                    cross_encoder_weight)
     IN IF \E i \in 1..Len(entries) : entries[i].llm_score.t # "num"
          THEN \* None * llm_weight: TypeError
               /\ pc' = "aborted"
               /\ failure' = "judge_null_score"
               /\ UNCHANGED <<combined_results, final_ranking, files, written>>
          ELSE /\ combined_results' =
                    [i \in 1..Len(entries) |->
                       [entries[i] EXCEPT !.llm_score = entries[i].llm_score.n]]
               /\ final_ranking' = SortedDesc(combined_results', "combined_score")
               /\ files' = [files EXCEPT ![FINAL_RANKING_PATH] = json_dump(final_ranking')]
               /\ written' = Append(written, FINAL_RANKING_PATH)
               /\ pc' = "done"
               /\ UNCHANGED failure
  /\ UNCHANGED <<libVars, ctorVars, structured_job_description, structured_resumes,
                 stage1Vars, loaded_ranking, top_candidate_names,
                 candidate_data_by_name, llm_results, cross_encoder_scores,
                 pos, call_log>>

Next ==
  \/ ExtractJobDescription
  \/ ExtractResumeDetails
  \/ FilterStep
  \/ FilterReturn
  \/ ScoreStart
  \/ ScoreStep
  \/ ScoreReturn

Spec == Init /\ [][Next]_vars

\* the same run, for every --data-dir
SpecDataDir == InitDataDir /\ [][Next]_vars

(* ======================= properties ======================= *)
Min(a, b) == IF a < b THEN a ELSE b
Max(a, b) == IF a > b THEN a ELSE b

\* bi_encoder_resume_filtering has returned its ranking
Stage1Returned ==
  \/ pc \in {"score", "score_loop", "done"}
  \/ pc = "aborted" /\ failure \notin {"embedder", "format_resume"}

\* score_and_rank has been entered
Stage2Started ==
  \/ pc \in {"score_loop", "done"}
  \/ pc = "aborted" /\ failure \notin {"embedder", "format_resume"}

CountOf(xs, x) == Cardinality({j \in 1..Len(xs) : xs[j] = x})

InputIdentities ==
  [i \in 1..Len(structured_resumes) |-> Stage1Name(structured_resumes[i])]
OutputIdentities ==
  [j \in 1..Len(bi_encoder_ranking) |-> bi_encoder_ranking[j].candidate_name]

\* C1 as stated: for a non-empty pool the Stage 1 ranking has as many entries
\* as the pool has records, and the identity of every record occurs in it
\* exactly once.
C1_Original ==
  (Stage1Returned /\ Len(structured_resumes) > 0) =>
    /\ Len(bi_encoder_ranking) = Len(structured_resumes)
    /\ \A i \in 1..Len(structured_resumes) :
         CountOf(OutputIdentities, InputIdentities[i]) = 1

\* C1 amended: for a non-empty pool the Stage 1 ranking has as many entries
\* as the pool has records, and every identity occurs in it exactly as often
\* as it occurs among the input records (once when the identities are
\* distinct).
C1_Completeness ==
  (Stage1Returned /\ Len(structured_resumes) > 0) =>
    /\ Len(bi_encoder_ranking) = Len(structured_resumes)
    /\ \A i \in 1..Len(structured_resumes) :
         CountOf(OutputIdentities, InputIdentities[i])
           = CountOf(InputIdentities, InputIdentities[i])

C1_Witness ==
  /\ Stage1Returned
  /\ Len(structured_resumes) >= 2
  /\ InputIdentities[1] = InputIdentities[2]
  /\ Len(bi_encoder_ranking) = Len(structured_resumes)

\* the first topN entries of the ranked pool, as the contract defines them
FirstTopN ==
  SubSeq(loaded_ranking, 1, Min(Max(top_n, 0), Len(loaded_ranking)))

\* no record of candidateRecords is indexed under this identity
Unresolved(name) ==
  \A i \in 1..Len(structured_resumes) : Stage2Key(structured_resumes[i]) # name

UnresolvedTopN ==
  {i \in 1..Len(FirstTopN) : Unresolved(FirstTopN[i].candidate_name)}

EntriesNamed(name) ==
  {j \in 1..Len(final_ranking) : final_ranking[j].candidate_name = name}

\* C2 as stated: a top-N identity that matches no record has no entry in the
\* Stage 2 output, which is shorter than the top-N by the number of
\* unresolved identities.
C2_Original ==
  pc = "done" =>
    /\ \A i \in UnresolvedTopN : EntriesNamed(FirstTopN[i].candidate_name) = {}
    /\ Len(final_ranking) = Len(FirstTopN) - Cardinality(UnresolvedTopN)

\* What score_and_rank does with such an identity (C2): it is not scored
\* (neither the Judge nor the PairwiseScorer is called for it) but stays in
\* the output, once per occurrence among the top-N, with judgment score 0,
\* pairwise score 0, combined score 0 and an empty judgment detail.
UnresolvedKeptWithZero ==
  pc = "done" =>
    /\ Len(final_ranking) >= Len(FirstTopN)
    /\ \A i \in UnresolvedTopN :
         LET name == FirstTopN[i].candidate_name
         IN /\ call_log[i].judge = "skipped"
            /\ call_log[i].pairwise = "not_called"
            /\ Cardinality(EntriesNamed(name))
                 = Cardinality({k \in 1..Len(FirstTopN) : FirstTopN[k].candidate_name = name})
            /\ \A j \in EntriesNamed(name) :
                 /\ final_ranking[j].llm_score = 0
                 /\ final_ranking[j].cross_encoder_score = 0
                 /\ final_ranking[j].combined_score = 0
                 /\ final_ranking[j].llm_analysis = EmptyDict

C2_Reached ==
  /\ pc = "done"
  /\ UnresolvedTopN # {}
  /\ \E i \in 1..Len(FirstTopN) : i \notin UnresolvedTopN

\* C3 as stated: score_and_rank works on exactly the first topN entries of
\* the ranked pool (all of them when there are fewer), and returns an empty
\* result for every topN <= 0.
C3_Original ==
  /\ Stage2Started =>
       top_candidate_names =
         [i \in 1..Len(FirstTopN) |-> FirstTopN[i].candidate_name]
  /\ (pc = "done" /\ top_n <= 0) => final_ranking = <<>>

C3_Reached ==
  /\ pc = "done"
  /\ top_n < 0
  /\ Len(loaded_ranking) >= 2

\* the Judge's answer is not a well-formed judgment
Malformed(judgment) ==
  \/ ~IsDict(judgment)
  \/ "final_score" \notin DOMAIN judgment.d
  \/ judgment.d["final_score"].t # "num"

TopPositions == 1..Len(top_candidate_names)

\* the name at this position occurs nowhere else among the top-N
NameOnce(i) ==
  \A k \in TopPositions : top_candidate_names[k] = top_candidate_names[i] => k = i

\* the entry the results obtained at position i determine
OwnEntry(i) ==
  LET c == call_log[i]
      judged == IF "final_score" \in DOMAIN c.judgment.d
                  THEN c.judgment.d["final_score"].n ELSE 0
  IN [candidate_name |-> top_candidate_names[i],
      llm_score |-> judged,
      cross_encoder_score |-> c.score,
      combined_score |-> judged * llm_weights + c.score * cross_encoder_weight,
      llm_analysis |->
        Dict([k \in {"candidate_name"} \cup DOMAIN c.judgment.d |->
                IF k = "candidate_name" THEN top_candidate_names[i]
                ELSE c.judgment.d[k]])]

\* the returned list holds exactly the entries built for the top-N positions
ReturnsBuiltEntries ==
  /\ Len(final_ranking) = Len(top_candidate_names)
  /\ Len(combined_results) = Len(top_candidate_names)
  /\ \A i \in TopPositions :
       CountOf(final_ranking, combined_results[i])
         = CountOf(combined_results, combined_results[i])

\* a run that ended inside score_and_rank ended for a reason other than a
\* Judge failure: the PairwiseScorer raised or the Judge answered malformed
AbortHasOtherCause ==
  (pc = "aborted" /\ call_log # <<>>) =>
    \E i \in 1..Len(call_log) :
      \/ call_log[i].pairwise = "raised"
      \/ call_log[i].judge = "answered" /\ Malformed(call_log[i].judgment)

SomeJudgeFailure == \E i \in 1..Len(call_log) : call_log[i].judge = "failed"

JudgeFailureAbsorbedAt(i) ==
  /\ call_log[i].judge = "failed" =>
       /\ combined_results[i].llm_score = 0
       /\ combined_results[i].cross_encoder_score = call_log[i].score
       /\ combined_results[i].combined_score = call_log[i].score * cross_encoder_weight
  /\ call_log[i].judge = "answered" => combined_results[i] = OwnEntry(i)

\* C4 as stated: Judge failures never abort score_and_rank; it returns an
\* entry for every top-N candidate, a failing candidate has judgment score 0
\* and combined score = rescaled pairwise score * pairwise weight, and every
\* other candidate's entry is the one its own results give.
C4_Original ==
  /\ AbortHasOtherCause
  /\ (pc = "done" /\ SomeJudgeFailure) =>
       /\ ReturnsBuiltEntries
       /\ \A i \in TopPositions : JudgeFailureAbsorbedAt(i)

\* C4 amended: as stated, for the top-N candidates whose name occurs once
\* among the top-N (entries that share a name share the first result
\* obtained for that name).
C4_JudgeFailureAbsorbed ==
  /\ AbortHasOtherCause
  /\ (pc = "done" /\ SomeJudgeFailure) =>
       /\ ReturnsBuiltEntries
       /\ \A i \in TopPositions : NameOnce(i) => JudgeFailureAbsorbedAt(i)

C4_Witness ==
  /\ pc = "done"
  /\ \E i, j \in TopPositions :
       /\ NameOnce(i) /\ NameOnce(j)
       /\ call_log[i].judge = "failed"
       /\ call_log[j].judge = "answered"
       /\ combined_results[j].llm_score > 0

\* C5 as stated: a PairwiseScorer failure does not abort score_and_rank; the
\* candidate is returned with pairwise score 0 and the others are scored.
C5_Original ==
  \A i \in 1..Len(call_log) :
    call_log[i].pairwise = "raised" =>
      /\ pc # "aborted"
      /\ pc = "done" =>
           /\ Len(final_ranking) = Len(top_candidate_names)
           /\ combined_results[i].cross_encoder_score = 0

C5_Reached ==
  /\ pc = "aborted"
  /\ \E i \in 1..Len(call_log) : call_log[i].pairwise = "raised"

\* C6 as stated: a Judge that answers with a value that is not an object, or
\* with an object whose final_score is null or missing, does not abort
\* score_and_rank, and the candidate is ranked with judgment score 0.
C6_Original ==
  \A i \in 1..Len(call_log) :
    (/\ call_log[i].judge = "answered"
     /\ Malformed(call_log[i].judgment)
     /\ \A k \in 1..Len(call_log) : call_log[k].pairwise # "raised") =>
      /\ pc # "aborted"
      /\ pc = "done" =>
           /\ Len(final_ranking) = Len(top_candidate_names)
           /\ NameOnce(i) => combined_results[i].llm_score = 0

C6_Reached ==
  /\ pc = "aborted"
  /\ failure \in {"judge_not_object", "judge_null_score"}

Range(f) == {f[x] : x \in DOMAIN f}

\* C7: when the Embedder fails for a candidate, bi_encoder_resume_filtering
\* returns no ranking, the run stops, the Stage 1 checkpoint is not written
\* and Stage 2 is never started.
C7_EmbedderFailureFatal ==
  failure = "embedder" =>
    /\ pc = "aborted"
    /\ bi_encoder_ranking = <<>>
    /\ BI_ENCODER_RANKING_PATH \notin Range(written)
    /\ files[BI_ENCODER_RANKING_PATH] \in {NoFile, json_dump(StaleRanking)}
    /\ loaded_ranking = <<>>
    /\ call_log = <<>>
    /\ final_ranking = <<>>
    /\ FINAL_RANKING_PATH \notin Range(written)

C7_Witness ==
  /\ failure = "embedder"
  /\ Len(results) >= 1
  /\ Len(results) < Len(structured_resumes)

\* C8: every returned entry has combined_score = llm_score * llm_weight +
\* cross_encoder_score * cross_encoder_weight, whatever the weights.
C8_FusionArithmetic ==
  pc = "done" =>
    \A j \in 1..Len(final_ranking) :
      final_ranking[j].combined_score =
        final_ranking[j].llm_score * llm_weights
          + final_ranking[j].cross_encoder_score * cross_encoder_weight

C8_Witness ==
  /\ pc = "done"
  /\ llm_weights + cross_encoder_weight # 10
  /\ \E i \in TopPositions : call_log[i].judge = "failed"
  /\ \E i \in TopPositions : call_log[i].judge = "skipped"
  /\ \E j \in 1..Len(final_ranking) : final_ranking[j].combined_score # 0

WithField(xs, field, v) ==
  LET Has(x) == x[field] = v IN SelectSeq(xs, Has)

Descending(xs, field) ==
  \A j \in 1..(Len(xs) - 1) : xs[j][field] >= xs[j + 1][field]

\* C9: the list score_and_rank returns is in descending order of combined
\* score, and entries with equal combined score are in the order their
\* candidates have in the ranked pool.
C9_FinalSortedStable ==
  pc = "done" =>
    /\ Descending(final_ranking, "combined_score")
    /\ Len(combined_results) = Len(top_candidate_names)
    /\ \A i \in TopPositions :
         /\ combined_results[i].candidate_name = top_candidate_names[i]
         /\ top_candidate_names[i] = loaded_ranking[i].candidate_name
         /\ WithField(final_ranking, "combined_score", combined_results[i].combined_score)
              = WithField(combined_results, "combined_score", combined_results[i].combined_score)

C9_Witness ==
  /\ pc = "done"
  /\ \E i, j \in 1..Len(final_ranking) :
       /\ i < j
       /\ final_ranking[i].combined_score = final_ranking[j].combined_score
       /\ final_ranking[i].candidate_name # final_ranking[j].candidate_name

\* C10: the list bi_encoder_resume_filtering returns is in descending order
\* of similarity, and candidates with equal similarity are in the order they
\* have in the input pool.
C10_Stage1SortedStable ==
  Stage1Returned =>
    /\ Descending(bi_encoder_ranking, "rank")
    /\ Len(results) = Len(structured_resumes)
    /\ \A i \in 1..Len(results) :
         /\ results[i].candidate_name = Stage1Name(structured_resumes[i])
         /\ WithField(bi_encoder_ranking, "rank", results[i].rank)
              = WithField(results, "rank", results[i].rank)

C10_Witness ==
  /\ Stage1Returned
  /\ \E i, j \in 1..Len(bi_encoder_ranking) :
       /\ i < j
       /\ bi_encoder_ranking[i].rank = bi_encoder_ranking[j].rank
       /\ bi_encoder_ranking[i].candidate_name # bi_encoder_ranking[j].candidate_name


\* C11: for every topN >= 0, each identity in the output of score_and_rank is
\* the identity of one of the first topN entries of the ranked pool, and the
\* output has at most min(topN, pool size) entries.
C11_MonotonicGating ==
  (pc = "done" /\ top_n >= 0) =>
    /\ \A j \in 1..Len(final_ranking) :
         \E i \in 1..Min(top_n, Len(loaded_ranking)) :
           loaded_ranking[i].candidate_name = final_ranking[j].candidate_name
    /\ Len(final_ranking) <= Min(top_n, Len(loaded_ranking))

C11_Witness ==
  /\ pc = "done"
  /\ top_n >= 1
  /\ Len(loaded_ranking) > top_n
  /\ Len(final_ranking) = top_n
  /\ loaded_ranking[top_n + 1].candidate_name # loaded_ranking[1].candidate_name

(* ---------------- the helper functions called on their own ---------------- *)
\* a key the record does not have
Absent == [t |-> "absent"]

\* the record with the fields of f that are not Absent
Record(f) == Dict([k \in {x \in DOMAIN f : f[x] # Absent} |-> f[k]])

\* an optional field: missing, null, or holding v
Optional(v) == {Absent, Null, v}

\* StructuredResume (models/schema.py) with optional fields missing or null
SkillLists == List(<<Str("python"), Str("sql")>>)
SparseSkills ==
  {Absent, Null} \cup
  {Record([programming_languages |-> p, frameworks_and_libraries |-> f,
           platforms_and_tools |-> t]) :
     p \in Optional(SkillLists), f \in Optional(List(<<Str("django")>>)),
     t \in Optional(List(<<Str("aws")>>))}
FullSkills ==
  Record([programming_languages |-> SkillLists,
          frameworks_and_libraries |-> List(<<Str("django")>>),
          platforms_and_tools |-> List(<<Str("aws")>>)])

SparseJobs ==
  {Null} \cup
  {Record([company |-> c, job_title |-> r, achievements |-> a]) :
     c \in Optional(Str("Acme")), r \in Optional(Str("Dev")),
     a \in Optional(List(<<Str("shipped"), Str("led")>>))}
FullJob ==
  Record([company |-> Str("Acme"), job_title |-> Str("Dev"),
          achievements |-> List(<<Str("shipped"), Str("led")>>)])
SparseWork ==
  {Absent, Null, List(<<>>), List(<<FullJob, FullJob>>)} \cup
  {List(<<j>>) : j \in SparseJobs}

SparseProjectEntries ==
  {Null} \cup
  {Record([project_name |-> n, description |-> d]) :
     n \in Optional(Str("Ranker")), d \in Optional(Str("ranks"))}
FullProject == Record([project_name |-> Str("Ranker"), description |-> Str("ranks")])
SparseProjects ==
  {Absent, Null, List(<<>>)} \cup {List(<<p>>) : p \in SparseProjectEntries}

Resumes(summaries, skills, work, projects, certs) ==
  {Record([professional_summary |-> ps, skills_section |-> ss,
           work_experience |-> we, projects |-> pr, certifications |-> ce]) :
     ps \in summaries, ss \in skills, we \in work, pr \in projects, ce \in certs}

\* every section missing, null or filled, and each section in turn with every
\* combination of its own fields missing, null or filled
SparseResumes ==
  LET summaries == Optional(Str("engineer"))
      skills == Optional(FullSkills)
      work == Optional(List(<<FullJob>>))
      projects == Optional(List(<<FullProject>>))
      certs == Optional(List(<<Str("cka")>>))
  IN Resumes(summaries, SparseSkills, work, projects, certs)
       \cup Resumes(summaries, skills, SparseWork, projects, certs)
       \cup Resumes(summaries, skills, work, SparseProjects, certs)

\* records whose fields hold a value of the wrong type
IllTypedResumes ==
  {Record([work_experience |-> List(<<Record([achievements |-> List(<<Null>>)])>>)]),
   Record([work_experience |-> Num(1)]),
   Record([skills_section |-> Record([programming_languages |-> Num(3)])]),
   Record([certifications |-> List(<<Null>>)])}

\* values that are not a record
NonRecords == {Null, List(<<>>), List(<<FullJob>>), Str("resume"), Num(7)}

\* StructuredJobDescription (models/schema.py) with optional fields missing or null
SparseJobContext ==
  {Absent, Null} \cup
  {Record([job_title |-> a, seniority_level |-> b]) :
     a \in Optional(Str("Engineer")), b \in Optional(Str("Senior"))}
SparseRoleDescription ==
  {Absent, Null} \cup
  {Record([key_responsibilities |-> a, domain_knowledge |-> b]) :
     a \in Optional(List(<<Str("build"), Str("review")>>)),
     b \in Optional(List(<<Str("hr")>>))}
SparseHardRequirements ==
  {Absent, Null} \cup
  {Record([must_have_skills |-> a, must_have_tools |-> b,
           required_experience_type |-> c]) :
     a \in Optional(List(<<Str("python")>>)), b \in Optional(List(<<Str("git")>>)),
     c \in Optional(List(<<Str("backend")>>))}
SparsePreferred ==
  {Absent, Null} \cup
  {Record([preferred_skills |-> a, preferred_tools |-> b]) :
     a \in Optional(List(<<Str("go")>>)), b \in Optional(List(<<Str("k8s")>>))}

FullJobContext == Record([job_title |-> Str("Engineer"), seniority_level |-> Str("Senior")])
FullRoleDescription ==
  Record([key_responsibilities |-> List(<<Str("build"), Str("review")>>),
          domain_knowledge |-> List(<<Str("hr")>>)])
FullHardRequirements ==
  Record([must_have_skills |-> List(<<Str("python")>>),
          must_have_tools |-> List(<<Str("git")>>),
          required_experience_type |-> List(<<Str("backend")>>)])
FullPreferred ==
  Record([preferred_skills |-> List(<<Str("go")>>), preferred_tools |-> List(<<Str("k8s")>>)])

JobDescriptions(contexts, roles, hard, preferred) ==
  {Record([job_context |-> jc, role_description |-> rd, hard_requirements |-> hr,
           preferred_qualifications |-> pq]) :
     jc \in contexts, rd \in roles, hr \in hard, pq \in preferred}

SparseJobDescriptions ==
  LET contexts == Optional(FullJobContext)
      roles == Optional(FullRoleDescription)
      hard == Optional(FullHardRequirements)
      preferred == Optional(FullPreferred)
  IN JobDescriptions(SparseJobContext, roles, hard, preferred)
       \cup JobDescriptions(contexts, SparseRoleDescription, hard, preferred)
       \cup JobDescriptions(contexts, roles, SparseHardRequirements, preferred)
       \cup JobDescriptions(contexts, roles, hard, SparsePreferred)

IllTypedJobDescriptions ==
  {Record([hard_requirements |-> Record([must_have_skills |-> Num(3)])])}

FormatResumeCalls ==
  {[fn |-> "format_resume", arg |-> v] :
     v \in SparseResumes \cup IllTypedResumes \cup NonRecords}
FormatJobDescriptionCalls ==
  {[fn |-> "format_job_description", arg |-> v] :
     v \in SparseJobDescriptions \cup IllTypedJobDescriptions \cup NonRecords}

pipelineVars ==
  <<pc, ctorVars, structured_job_description, structured_resumes, files, written,
    stage1Vars, stage2Vars, failure>>

\* format_resume(arg), as bi_encoder_resume_filtering and score_and_rank call it
CallFormatResume ==
  /\ pc = "library"
  /\ lib_call.fn = "format_resume"
  /\ lib_result = Pending
  /\ lib_result' = format_resume(lib_call.arg)
  /\ UNCHANGED <<lib_call, pipelineVars>>

\* format_job_description(arg)
CallFormatJobDescription ==
  /\ pc = "library"
  /\ lib_call.fn = "format_job_description"
  /\ lib_result = Pending
  /\ lib_result' = format_job_description(lib_call.arg)
  /\ UNCHANGED <<lib_call, pipelineVars>>

\* values a key can hold: falsy and truthy ones of each type
StoredValues ==
  {Null, Num(0), Num(5), Bool(FALSE), Bool(TRUE), Str(""), Str("x"),
   List(<<>>), List(<<Str("x")>>), EmptyDict}

SafeGetNestedCalls ==
  {[fn |-> "safe_get_nested", dictionary |-> d, keys |-> ks, default |-> dflt] :
     d \in {Null, Str("x"), EmptyDict}
             \cup {Dict([a |-> v]) : v \in StoredValues}
             \cup {Dict([a |-> Dict([b |-> v])]) : v \in StoredValues},
     ks \in {<<"a">>, <<"a", "b">>, <<"b">>},
     dflt \in {Null, Num(7)}}

\* safe_get_nested(dictionary, *keys, default=default)
CallSafeGetNested ==
  /\ pc = "library"
  /\ lib_call.fn = "safe_get_nested"
  /\ lib_result = Pending
  /\ lib_result' =
       Returns(safe_get_nested(lib_call.dictionary, lib_call.keys, lib_call.default))
  /\ UNCHANGED <<lib_call, pipelineVars>>

(* ---------------- utils/text_extractor.py ---------------- *)
SUPPORTED_EXTENSIONS == {".pdf", ".docx", ".txt", ".text"}

\* str.lower() on the suffixes of FolderEntries
Lower(suffix) ==
  CASE suffix = ".PDF" -> ".pdf"
    [] OTHER -> suffix

\* an entry of the resume folder: its name is stem + suffix, it is a file or a
\* directory, and its extractor returns the text or raises
FolderEntries ==
  [stem : {"cv", "bob"}, suffix : {".pdf", ".PDF", ".txt", ".md"},
   is_file : BOOLEAN, extracts : BOOLEAN]

FileName(entry) == entry.stem \o entry.suffix

\* what the extractor returns for the file
FileContent(entry) == "text of " \o FileName(entry)

\* list(resume_folder.iterdir()): entries with distinct names, in any order
Folders ==
  {fs \in SeqsUpTo(FolderEntries, MaxFiles) :
     \A i, j \in 1..Len(fs) : FileName(fs[i]) = FileName(fs[j]) => i = j}

\* load_raw_resume_texts, the loop over resume_files: texts after the last
\* entry of resume_files
RECURSIVE load_raw_resume_texts(_)
load_raw_resume_texts(resume_files) ==
  IF resume_files = <<>> THEN <<>>
  ELSE LET texts == load_raw_resume_texts(SubSeq(resume_files, 1, Len(resume_files) - 1))
           resume_file == resume_files[Len(resume_files)]
       IN IF /\ resume_file.is_file
             /\ Lower(resume_file.suffix) \in SUPPORTED_EXTENSIONS
             /\ resume_file.extracts
            THEN [k \in DOMAIN texts \cup {resume_file.stem} |->
                    IF k = resume_file.stem THEN FileContent(resume_file) ELSE texts[k]]
            ELSE texts

LoadRawResumeTextsCalls ==
  {[fn |-> "load_raw_resume_texts", resume_folder |-> fs] : fs \in Folders}

\* load_raw_resume_texts(resume_folder)
CallLoadRawResumeTexts ==
  /\ pc = "library"
  /\ lib_call.fn = "load_raw_resume_texts"
  /\ lib_result = Pending
  /\ lib_result' = Returns(load_raw_resume_texts(lib_call.resume_folder))
  /\ UNCHANGED <<lib_call, pipelineVars>>

\* the helper functions, each called once on the arguments in lib_call
LibCalls ==
  FormatResumeCalls \cup FormatJobDescriptionCalls \cup SafeGetNestedCalls
    \cup LoadRawResumeTextsCalls

InitLib ==
  /\ pc = "library"
  /\ top_n = 0
  /\ llm_weights = DefaultWeights[1]
  /\ cross_encoder_weight = DefaultWeights[2]
  /\ data_dir = DATA_DIR
  /\ structured_job_description = EmptyDict
  /\ structured_resumes = <<>>
  /\ files = [p \in ArtifactPaths |-> NoFile]
  /\ written = <<>>
  /\ results = <<>>
  /\ bi_encoder_ranking = <<>>
  /\ loaded_ranking = <<>>
  /\ top_candidate_names = <<>>
  /\ candidate_data_by_name = <<>>
  /\ llm_results = <<>>
  /\ cross_encoder_scores = <<>>
  /\ pos = 1
  /\ combined_results = <<>>
  /\ final_ranking = <<>>
  /\ call_log = <<>>
  /\ failure = "none"
  /\ lib_call \in LibCalls
  /\ lib_result = Pending

NextLib ==
  \/ CallFormatResume
  \/ CallFormatJobDescription
  \/ CallSafeGetNested
  \/ CallLoadRawResumeTexts

SpecLib == InitLib /\ [][NextLib]_vars

(* ---------------- C12 ---------------- *)
\* the field is there and is not null
HasField(rec, key) == IsDict(rec) /\ key \in DOMAIN rec.d /\ rec.d[key] # Null
\* a text field as the block shows it: its string, or "" when missing or null
FieldText(rec, key) == IF HasField(rec, key) THEN rec.d[key].s ELSE ""
\* the items of a list field, none when missing or null
Items(rec, key) == IF HasField(rec, key) THEN rec.d[key].l ELSE <<>>
Section(rec, key) == IF HasField(rec, key) THEN rec.d[key] ELSE Null
Words(items) == JoinStr([i \in 1..Len(items) |-> items[i].s], " ")
WordsOf(rec, key) == Words(Items(rec, key))

ExpectedResumeText(r) ==
  LET ss == Section(r, "skills_section")
      jobs == Items(r, "work_experience")
      projs == Items(r, "projects")
  IN resume_signal_text(
       FieldText(r, "professional_summary"),
       Words(Items(ss, "programming_languages") \o Items(ss, "frameworks_and_libraries")
               \o Items(ss, "platforms_and_tools")),
       JoinStr([i \in 1..Len(jobs) |->
                  FieldText(jobs[i], "job_title") \o " at " \o FieldText(jobs[i], "company")
                    \o ": " \o WordsOf(jobs[i], "achievements")], " "),
       JoinStr([i \in 1..Len(projs) |->
                  FieldText(projs[i], "project_name") \o ": "
                    \o FieldText(projs[i], "description")], " "),
       WordsOf(r, "certifications"))

ExpectedJobText(j) ==
  LET jc == Section(j, "job_context")
      rd == Section(j, "role_description")
      hr == Section(j, "hard_requirements")
      pq == Section(j, "preferred_qualifications")
  IN job_signal_text(FieldText(jc, "job_title"), FieldText(jc, "seniority_level"),
                     WordsOf(rd, "key_responsibilities"), WordsOf(hr, "must_have_skills"),
                     WordsOf(hr, "must_have_tools"), WordsOf(pq, "preferred_skills"),
                     WordsOf(pq, "preferred_tools"), WordsOf(hr, "required_experience_type"),
                     WordsOf(rd, "domain_knowledge"))

\* C12: format_job_description and format_resume never raise for a record
\* whose optional fields are missing or null at any nesting depth; they return
\* the text block in which every such field is the empty string.
C12_SparseRecordsSerialize ==
  /\ (lib_call.fn = "format_resume" /\ lib_call.arg \in SparseResumes
        /\ lib_result # Pending) =>
       lib_result = Returns(Str(ExpectedResumeText(lib_call.arg)))
  /\ (lib_call.fn = "format_job_description" /\ lib_call.arg \in SparseJobDescriptions
        /\ lib_result # Pending) =>
       lib_result = Returns(Str(ExpectedJobText(lib_call.arg)))

\* a resume without a skills section, with a null summary and one work entry
\* whose company is null and whose achievements are missing, has been serialized
C12_Witness ==
  /\ lib_call.fn = "format_resume"
  /\ lib_call.arg \in SparseResumes
  /\ "skills_section" \notin DOMAIN lib_call.arg.d
  /\ "professional_summary" \in DOMAIN lib_call.arg.d
  /\ lib_call.arg.d.professional_summary = Null
  /\ HasField(lib_call.arg, "work_experience")
  /\ Len(lib_call.arg.d.work_experience.l) = 1
  /\ IsDict(lib_call.arg.d.work_experience.l[1])
  /\ "company" \in DOMAIN lib_call.arg.d.work_experience.l[1].d
  /\ lib_call.arg.d.work_experience.l[1].d.company = Null
  /\ "achievements" \notin DOMAIN lib_call.arg.d.work_experience.l[1].d
  /\ lib_result # Pending
  /\ ~lib_result.raises

(* ---------------- C13 ---------------- *)
NonRecordCall ==
  /\ lib_call.fn \in {"format_resume", "format_job_description"}
  /\ lib_call.arg \in NonRecords
  /\ lib_result # Pending

\* C13 as stated: format_job_description and format_resume raise when they
\* are given a value that is not a record, and return no text block for it.
C13_Original == NonRecordCall => lib_result.raises

\* C13: given a value that is not a record (null, a list, a string, a number),
\* format_job_description and format_resume do not raise: they return the text
\* block with every field empty.
C13_NonRecordGivesEmptyBlock ==
  NonRecordCall =>
    lib_result =
      Returns(Str(IF lib_call.fn = "format_resume"
                    THEN resume_signal_text("", "", "", "", "")
                    ELSE job_signal_text("", "", "", "", "", "", "", "", "")))

\* format_resume has been called on a string and format_job_description on null
C13_Witness ==
  /\ NonRecordCall
  /\ \/ lib_call.fn = "format_resume" /\ lib_call.arg = Str("resume")
     \/ lib_call.fn = "format_job_description" /\ lib_call.arg = Null

(* ---------------- C14 ---------------- *)
\* 10 * (llm_weights + cross_encoder_weight), in the unit of combined_score
UpperBound == 10000 * (llm_weights + cross_encoder_weight)

\* C14 as stated: for any caller-supplied weights, every combined score that
\* score_and_rank returns lies in [0, 10 * (judgmentWeight + pairwiseWeight)].
C14_Original ==
  pc = "done" =>
    \A j \in 1..Len(final_ranking) :
      /\ 0 <= final_ranking[j].combined_score
      /\ final_ranking[j].combined_score <= UpperBound

\* C14: for non-negative caller-supplied weights, a judgment score in [0, 10]
\* and a rescaled pairwise score in [0, 10], every combined score that
\* score_and_rank returns lies in [0, 10 * (judgmentWeight + pairwiseWeight)].
C14_CombinedWithinBounds ==
  (pc = "done" /\ llm_weights >= 0 /\ cross_encoder_weight >= 0) =>
    \A j \in 1..Len(final_ranking) :
      /\ 0 <= final_ranking[j].combined_score
      /\ final_ranking[j].combined_score <= UpperBound

\* weights that do not sum to 1 have given a combined score above 10
C14_Witness ==
  /\ pc = "done"
  /\ llm_weights >= 0
  /\ cross_encoder_weight >= 0
  /\ llm_weights + cross_encoder_weight # 10
  /\ \E j \in 1..Len(final_ranking) : final_ranking[j].combined_score > 100000

(* ---------------- C15 ---------------- *)
\* the judgment score an entry shows for a Judge result
ShownScore(judgment) ==
  IF "final_score" \in DOMAIN judgment.d THEN judgment.d["final_score"].n ELSE 0

\* entry e carries the results computed at top-N position i, and position i
\* computed them from a record whose name is the identity of e
FromOwnRecordAt(e, i) ==
  /\ top_candidate_names[i] = e.candidate_name
  /\ e.candidate_name \in DOMAIN candidate_data_by_name
  /\ Stage2Key(candidate_data_by_name[e.candidate_name]) = e.candidate_name
  /\ call_log[i].judge \in {"failed", "answered"}
  /\ call_log[i].pairwise = "scored"
  /\ e.cross_encoder_score = call_log[i].score
  /\ e.llm_score = ShownScore(call_log[i].judgment)
  /\ e.llm_analysis = WithName(e.candidate_name, call_log[i].judgment)

\* no record has the identity of e, and e carries no result at all
NothingAttached(e) ==
  /\ e.candidate_name \notin DOMAIN candidate_data_by_name
  /\ e.llm_score = 0
  /\ e.cross_encoder_score = 0
  /\ e.llm_analysis = EmptyDict

Stage1Inputs == <<structured_job_description, structured_resumes>>
\* the arguments of score_and_rank
Stage2Inputs == <<structured_job_description, structured_resumes, loaded_ranking>>

\* C16: bi_encoder_resume_filtering and score_and_rank leave their inputs
\* unchanged: no step of either call changes the job specification, the list
\* of candidate records or the ranked pool given as input; the result is
\* built in a list of its own.
C16_InputsUnchanged ==
  [][ /\ pc = "filter" => Stage1Inputs' = Stage1Inputs
      /\ pc = "score_loop" => Stage2Inputs' = Stage2Inputs ]_vars

\* both calls have returned, the result of Stage 2 is ordered differently from
\* its input, and the inputs are still what was written before the calls
C16_Witness ==
  /\ pc = "done"
  /\ Len(final_ranking) = 2
  /\ final_ranking[1].candidate_name # loaded_ranking[1].candidate_name
  /\ structured_resumes = json_load(files[STRUCTURED_RESUMES_PATH])
  /\ structured_job_description = json_load(files[STRUCTURED_JOB_DESCRIPTION_PATH])
  /\ loaded_ranking = json_load(files[BI_ENCODER_RANKING_PATH])

(* ---------------- C17 ---------------- *)
ArtifactNames ==
  {"structured_job_description.json", "structured_resumes.json",
   "bi_encoder_ranking.json", "final_resume_ranking.json"}

\* path is dir / name for one of the artifact names
InDir(dir, path) == \E name \in ArtifactNames : path = dir \o "/" \o name

\* C17 as stated: every artifact the pipeline writes is written inside the
\* data directory passed to ResumeRankingPipeline, and the Stage 1 ranking
\* that Stage 2 loads is read from that same directory.
C17_Original ==
  /\ \A i \in 1..Len(written) : InDir(data_dir, written[i])
  /\ Stage2Started => InDir(data_dir, BI_ENCODER_RANKING_PATH)

\* what the pipeline does: the artifacts are written to, and the Stage 1
\* ranking is read from, the directory config.py fixes, whatever data_dir is
ArtifactsInConfigDir ==
  /\ \A i \in 1..Len(written) : InDir(DATA_DIR, written[i])
  /\ InDir(DATA_DIR, BI_ENCODER_RANKING_PATH)

C17_Reached ==
  /\ pc = "done"
  /\ data_dir # DATA_DIR
  /\ Len(written) = 4

(* ---------------- C18 ---------------- *)
\* the artifacts in the order run writes them
RunOrder ==
  <<STRUCTURED_JOB_DESCRIPTION_PATH, STRUCTURED_RESUMES_PATH,
    BI_ENCODER_RANKING_PATH, FINAL_RANKING_PATH>>

\* C18: run does job extraction, resume extraction, Stage 1 with its ranking
\* written to the checkpoint, then Stage 2, in this order; Stage 2 starts only
\* after the Stage 1 checkpoint of this run is written and consumes the ranking
\* Stage 1 produced in this run; the final ranking is written only after
\* Stage 2 has returned.
C18_RunOrder ==
  /\ written = SubSeq(RunOrder, 1, Len(written))
  /\ pc = "extract_job" => Len(written) = 0
  /\ pc = "extract_resumes" => Len(written) = 1
  /\ pc = "filter" => Len(written) = 2
  /\ pc = "score" => Len(written) = 3
  /\ Stage2Started =>
       /\ Len(written) >= 3
       /\ files[BI_ENCODER_RANKING_PATH] = json_dump(bi_encoder_ranking)
       /\ loaded_ranking = bi_encoder_ranking
       /\ Len(bi_encoder_ranking) = Len(structured_resumes)
  /\ Len(written) = 4 =>
       /\ pc = "done"
       /\ files[FINAL_RANKING_PATH] = json_dump(final_ranking)

\* a run that found the checkpoint of an earlier run in the data directory
\* has finished, and Stage 2 ranked this run's candidates
C18_Witness ==
  /\ pc = "done"
  /\ Len(written) = 4
  /\ Len(final_ranking) >= 1
  /\ loaded_ranking # StaleRanking
  /\ \E i \in 1..Len(structured_resumes) :
       Stage1Name(structured_resumes[i]) = final_ranking[1].candidate_name

(* ---------------- C19 ---------------- *)
\* every key of the path exists (each value on the way is a dictionary)
RECURSIVE PathExists(_, _)
PathExists(v, keys) ==
  \/ keys = <<>>
  \/ /\ IsDict(v)
     /\ Head(keys) \in DOMAIN v.d
     /\ PathExists(v.d[Head(keys)], Tail(keys))

\* the value stored at the path
RECURSIVE ValueAt(_, _)
ValueAt(v, keys) ==
  IF keys = <<>> THEN v ELSE ValueAt(v.d[Head(keys)], Tail(keys))

SafeGetNestedReturned == lib_call.fn = "safe_get_nested" /\ lib_result # Pending

\* C19 as stated: safe_get_nested returns the value stored at the key path
\* whenever every key of the path exists, whatever that value is, and the
\* default only when a key is missing or an intermediate value is not a
\* dictionary.
C19_Original ==
  SafeGetNestedReturned =>
    lib_result.value =
      IF PathExists(lib_call.dictionary, lib_call.keys)
        THEN ValueAt(lib_call.dictionary, lib_call.keys)
        ELSE lib_call.default

\* what safe_get_nested does: a stored value that is falsy (None, 0, False,
\* "", [], {}) is replaced by the default as well
FalsyStoredGivesDefault ==
  SafeGetNestedReturned =>
    lib_result.value =
      IF PathExists(lib_call.dictionary, lib_call.keys)
           /\ Truthy(ValueAt(lib_call.dictionary, lib_call.keys))
        THEN ValueAt(lib_call.dictionary, lib_call.keys)
        ELSE lib_call.default

C19_Reached ==
  /\ SafeGetNestedReturned
  /\ lib_call.keys = <<"a", "b">>
  /\ PathExists(lib_call.dictionary, lib_call.keys)
  /\ ValueAt(lib_call.dictionary, lib_call.keys) = Bool(FALSE)
  /\ lib_result.value = Num(7)

(* ---------------- C20 ---------------- *)
LoadReturned == lib_call.fn = "load_raw_resume_texts" /\ lib_result # Pending

\* the files of the folder with a supported extension whose extraction succeeds
Loadable ==
  {i \in 1..Len(lib_call.resume_folder) :
     /\ lib_call.resume_folder[i].is_file
     /\ Lower(lib_call.resume_folder[i].suffix) \in SUPPORTED_EXTENSIONS
     /\ lib_call.resume_folder[i].extracts}

\* C20 as stated: load_raw_resume_texts returns one entry for every file with
\* a supported extension whose extraction succeeds, so the number of entries
\* equals the number of such files; a file whose extraction raises is skipped
\* and the remaining files are loaded.
C20_Original ==
  LoadReturned =>
    /\ Cardinality(DOMAIN lib_result.value) = Cardinality(Loadable)
    /\ \A i \in Loadable : lib_call.resume_folder[i].stem \in DOMAIN lib_result.value

\* what load_raw_resume_texts does: one entry per stem of a loadable file,
\* holding the text of the last loadable file with that stem
OneEntryPerStem ==
  LoadReturned =>
    /\ DOMAIN lib_result.value = {lib_call.resume_folder[i].stem : i \in Loadable}
    /\ \A i \in Loadable :
         (\A j \in Loadable : lib_call.resume_folder[j].stem = lib_call.resume_folder[i].stem
                                => j <= i)
           => lib_result.value[lib_call.resume_folder[i].stem]
                = FileContent(lib_call.resume_folder[i])

C20_Reached ==
  /\ LoadReturned
  /\ Cardinality(Loadable) = 2
  /\ Cardinality(DOMAIN lib_result.value) = 1

(* ---------------- C21 ---------------- *)
\* the record holds a non-empty name
Named(candidate_data) == Truthy(Stage2Key(candidate_data))

\* C21 as stated: the identity Stage 1 assigns to a record is the key under
\* which Stage 2 indexes it, so every entry of the Stage 1 ranking of a pool
\* resolves to a record when score_and_rank is given that pool, also for a
\* record whose name is missing, null or empty.
C21_Original ==
  Stage2Started =>
    /\ \A i \in 1..Len(structured_resumes) :
         Stage1Name(structured_resumes[i]) = Stage2Key(structured_resumes[i])
    /\ \A j \in 1..Len(loaded_ranking) :
         loaded_ranking[j].candidate_name \in DOMAIN candidate_data_by_name

\* what the two stages do: a record with a non-empty name has the same
\* identity in both and its ranking entry resolves; a record without one is
\* "Unknown Candidate" in Stage 1 and is indexed under None in Stage 2
NamedRecordsResolve ==
  Stage2Started =>
    \A i \in 1..Len(structured_resumes) :
      LET r == structured_resumes[i]
      IN IF Named(r)
           THEN /\ Stage1Name(r) = Stage2Key(r)
                /\ Stage1Name(r) \in DOMAIN candidate_data_by_name
           ELSE /\ Stage1Name(r) = Str("Unknown Candidate")
                /\ Stage2Key(r) = Null
                /\ Stage1Name(r) \notin DOMAIN candidate_data_by_name
                /\ \E j \in 1..Len(loaded_ranking) :
                     loaded_ranking[j].candidate_name = Stage1Name(r)

C21_Reached ==
  /\ pc = "done"
  /\ top_n >= 1
  /\ structured_resumes = <<EmptyDict>>
  /\ Len(final_ranking) = 1
  /\ final_ranking[1].candidate_name = Str("Unknown Candidate")
  /\ Null \in DOMAIN candidate_data_by_name

(* ---------------- C22 ---------------- *)
\* the last record of candidateRecords that Stage 1 ranked under this name
LastRecordNamed(name) ==
  structured_resumes[
    CHOOSE i \in 1..Len(structured_resumes) :
      /\ Stage1Name(structured_resumes[i]) = name
      /\ \A j \in 1..Len(structured_resumes) :
           Stage1Name(structured_resumes[j]) = name => j <= i]

\* position i is the first of the top-N with its name, and k a later one
Repeats(i, k) ==
  /\ i < k
  /\ top_candidate_names[i] = top_candidate_names[k]
  /\ \A h \in 1..(i - 1) : top_candidate_names[h] # top_candidate_names[i]

SameScores(a, b) ==
  /\ a.llm_score = b.llm_score
  /\ a.cross_encoder_score = b.cross_encoder_score
  /\ a.combined_score = b.combined_score

\* the entry carries the scores obtained by the call at position i
CarriesResultOf(entry, i) ==
  /\ call_log[i].pairwise = "scored"
  /\ entry.cross_encoder_score = call_log[i].score
  /\ entry.llm_score = ShownScore(call_log[i].judgment)
  /\ entry.combined_score =
       entry.llm_score * llm_weights + entry.cross_encoder_score * cross_encoder_weight

\* C22 as stated: when several of the first topN entries share a name,
\* score_and_rank returns one entry per occurrence, all of them with identical
\* judgment, pairwise and combined score, computed from the last record of
\* candidateRecords with that name: the first result obtained for the name is
\* reused for every occurrence, whatever the Judge answers on repeated calls.
C22_Original ==
  pc = "done" =>
    /\ Len(final_ranking) = Len(top_candidate_names)
    /\ \A i, k \in TopPositions :
         Repeats(i, k) =>
           /\ SameScores(combined_results[i], combined_results[k])
           /\ call_log[i].record = LastRecordNamed(top_candidate_names[i])
           /\ CarriesResultOf(combined_results[k], i)

\* what score_and_rank does with a repeated name: a name that is the key of a
\* record behaves as C22 says; a repeated name without a record (two nameless
\* records, both ranked as "Unknown Candidate") is never scored
DuplicatesReuseFirstResult ==
  pc = "done" =>
    /\ Len(final_ranking) = Len(top_candidate_names)
    /\ \A i, k \in TopPositions :
         Repeats(i, k) =>
           /\ SameScores(combined_results[i], combined_results[k])
           /\ IF top_candidate_names[i] \in DOMAIN candidate_data_by_name
                THEN /\ call_log[i].record = LastRecordNamed(top_candidate_names[i])
                     /\ CarriesResultOf(combined_results[k], i)
                ELSE /\ call_log[i].judge = "skipped"
                     /\ call_log[k].judge = "skipped"
                     /\ NothingAttached(combined_results[k])

\* two different records named A were ranked, the Judge answered differently
\* on the two calls, and both entries carry the first answer
C22_Reached ==
  /\ pc = "done"
  /\ structured_resumes = <<RevisedResume("A"), Resume("A")>>
  /\ Len(top_candidate_names) = 2
  /\ call_log[1].record = Resume("A")
  /\ call_log[1].judge = "answered"
  /\ call_log[2].judge = "failed"
  /\ call_log[1].score # call_log[2].score
  /\ combined_results[2].llm_score > 0

C22_NamelessReached ==
  /\ pc = "done"
  /\ structured_resumes = <<EmptyDict, EmptyDict>>
  /\ Len(final_ranking) = 2

====
